---- MODULE Spec2Model ----
(***************************************************************************)
(* A model of src/main.py: the document pipeline that classifies raw       *)
(* extraction records (identify_document_type), extracts canonical fields  *)
(* from a label forest (extract_from_labels), normalizes dates             *)
(* (parse_date), validates required fields (extract_document_data) and     *)
(* groups the accepted records into originals and duplicates               *)
(* (process_documents).                                                    *)
(*                                                                         *)
(* Python strings are modelled as sequences of one-character strings, so   *)
(* that strip(), lower(), substring tests, the regular expressions of      *)
(* parse_date and the f-string formatting are computed, not assumed.       *)
(***************************************************************************)
EXTENDS Integers, Sequences, FiniteSets, Bags, TLC

VARIABLES
    pc,         \* position of the modelled call or of process_documents
    date_str,   \* parse_date: the argument
    dateutil,   \* what dateutil.parser.parse does: for date_str, or per string
    parsed,     \* parse_date: the value returned, with the rule that decided
    json_data,  \* identify_document_type: the argument
    doc_type,   \* identify_document_type: the value returned
    labels,     \* extract_from_labels: the label forest
    base_data,  \* extract_from_labels: the record being filled
    files,      \* process_documents: the files found by glob, in its order
    results,    \* process_documents: what extract_document_data returned so far
    documents,  \* process_documents: the accepted records per document type
    processed_files,
    error_files,
    error_file_list,
    final_output    \* process_documents: the catalog per document type

callvars == <<date_str, dateutil, parsed, json_data, doc_type, labels, base_data>>
batchvars ==
    <<files, results, documents, processed_files, error_files, error_file_list,
      final_output>>
vars == <<pc, callvars, batchvars>>

None == [none |-> TRUE]

\* process_documents is not running
NoBatch ==
    /\ files = None
    /\ results = None
    /\ documents = None
    /\ processed_files = 0
    /\ error_files = 0
    /\ error_file_list = None
    /\ final_output = None

(***************************************************************************)
(* Characters and strings                                                  *)
(***************************************************************************)
Digits == <<"0", "1", "2", "3", "4", "5", "6", "7", "8", "9">>
UpperAlpha == <<"A", "B", "C", "D", "E", "F", "G", "H", "I", "J", "K", "L", "M", "N", "O", "P", "Q", "R", "S", "T", "U", "V", "W", "X", "Y", "Z">>
LowerAlpha == <<"a", "b", "c", "d", "e", "f", "g", "h", "i", "j", "k", "l", "m", "n", "o", "p", "q", "r", "s", "t", "u", "v", "w", "x", "y", "z">>

Range(s) == {s[k] : k \in 1..Len(s)}

\* \d of the regular expressions
Digit == Range(Digits)
\* \w of the regular expressions
WordChar == Digit \cup Range(UpperAlpha) \cup Range(LowerAlpha) \cup {"_"}
\* \s of the regular expressions, and what str.strip() removes
Space == {" ", "\t"}

NA == <<"N", "/", "A">>

LowerOf == [c \in Range(UpperAlpha) |-> LowerAlpha[CHOOSE k \in 1..26 : UpperAlpha[k] = c]]

LowerChar(c) == IF c \in DOMAIN LowerOf THEN LowerOf[c] ELSE c

\* str.lower()
Lower(s) == IF s = <<>> THEN <<>> ELSE [k \in 1..Len(s) |-> LowerChar(s[k])]

RECURSIVE LStrip(_)
LStrip(s) == IF s # <<>> /\ Head(s) \in Space THEN LStrip(Tail(s)) ELSE s

RECURSIVE RStrip(_)
RStrip(s) ==
    IF s # <<>> /\ s[Len(s)] \in Space THEN RStrip(SubSeq(s, 1, Len(s) - 1)) ELSE s

\* str.strip()
Strip(s) == RStrip(LStrip(s))

\* sub in s
Contains(s, sub) ==
    \E k \in 1..(Len(s) - Len(sub) + 1) : SubSeq(s, k, k + Len(sub) - 1) = sub

\* the length of the longest run of characters of class cls that starts at from
RECURSIVE SpanLen(_, _, _)
SpanLen(s, from, cls) ==
    IF from <= Len(s) /\ s[from] \in cls THEN 1 + SpanLen(s, from + 1, cls) ELSE 0

DigitVal(c) == CHOOSE d \in 0..9 : Digits[d + 1] = c

\* int() of a string of digits
RECURSIVE StrToInt(_)
StrToInt(s) ==
    IF s = <<>> THEN 0
    ELSE StrToInt(SubSeq(s, 1, Len(s) - 1)) * 10 + DigitVal(s[Len(s)])

\* f"{n}" of a natural number
RECURSIVE IntToStr(_)
IntToStr(n) ==
    IF n < 10 THEN <<Digits[n + 1]>>
    ELSE IntToStr(n \div 10) \o <<Digits[(n % 10) + 1]>>

\* f"{n:02d}"
Fmt02(n) == IF n < 10 THEN <<"0">> \o IntToStr(n) ELSE IntToStr(n)

\* f"{month:02d}/{day:02d}/{year}"
FormatDate(month, day, year) ==
    Fmt02(month) \o <<"/">> \o Fmt02(day) \o <<"/">> \o IntToStr(year)

(***************************************************************************)
(* parse_date                                                              *)
(***************************************************************************)
month_names ==
    (<<"j", "a", "n", "u", "a", "r", "y">> :> 1) @@ (<<"j", "a", "n">> :> 1) @@
    (<<"f", "e", "b", "r", "u", "a", "r", "y">> :> 2) @@ (<<"f", "e", "b">> :> 2) @@
    (<<"m", "a", "r", "c", "h">> :> 3) @@ (<<"m", "a", "r">> :> 3) @@
    (<<"a", "p", "r", "i", "l">> :> 4) @@ (<<"a", "p", "r">> :> 4) @@
    (<<"m", "a", "y">> :> 5) @@
    (<<"j", "u", "n", "e">> :> 6) @@ (<<"j", "u", "n">> :> 6) @@
    (<<"j", "u", "l", "y">> :> 7) @@ (<<"j", "u", "l">> :> 7) @@
    (<<"a", "u", "g", "u", "s", "t">> :> 8) @@ (<<"a", "u", "g">> :> 8) @@
    (<<"s", "e", "p", "t", "e", "m", "b", "e", "r">> :> 9) @@ (<<"s", "e", "p">> :> 9) @@ (<<"s", "e", "p", "t">> :> 9) @@
    (<<"o", "c", "t", "o", "b", "e", "r">> :> 10) @@ (<<"o", "c", "t">> :> 10) @@
    (<<"n", "o", "v", "e", "m", "b", "e", "r">> :> 11) @@ (<<"n", "o", "v">> :> 11) @@
    (<<"d", "e", "c", "e", "m", "b", "e", "r">> :> 12) @@ (<<"d", "e", "c">> :> 12)

\* re.match(r'^(\d{1,2})[/-](\d{1,2})[/-](\d{4})$', s): the three groups, or <<>>
MatchNumericTriple(s) ==
    LET a == SpanLen(s, 1, Digit)
        b == SpanLen(s, a + 2, Digit)
    IN  IF /\ a \in 1..2
           /\ Len(s) > a
           /\ s[a + 1] \in {"/", "-"}
           /\ b \in 1..2
           /\ Len(s) = a + b + 6
           /\ s[a + b + 2] \in {"/", "-"}
           /\ SpanLen(s, a + b + 3, Digit) = 4
        THEN <<SubSeq(s, 1, a), SubSeq(s, a + 2, a + b + 1), SubSeq(s, a + b + 3, Len(s))>>
        ELSE <<>>

\* re.match(r'^(\d{1,2})[-](\w+)[-](\d{4})$', s, re.IGNORECASE)
MatchDayMonthName(s) ==
    LET a == SpanLen(s, 1, Digit)
        w == SpanLen(s, a + 2, WordChar)
    IN  IF /\ a \in 1..2
           /\ Len(s) > a
           /\ s[a + 1] = "-"
           /\ w >= 1
           /\ Len(s) = a + w + 6
           /\ s[a + w + 2] = "-"
           /\ SpanLen(s, a + w + 3, Digit) = 4
        THEN <<SubSeq(s, 1, a), SubSeq(s, a + 2, a + w + 1), SubSeq(s, a + w + 3, Len(s))>>
        ELSE <<>>

\* re.match(r'^(\w+)\s+(\d{1,2}),?\s+(\d{4})$', s, re.IGNORECASE)
MatchMonthNameDay(s) ==
    LET w == SpanLen(s, 1, WordChar)
        s1 == SpanLen(s, w + 1, Space)
        d == SpanLen(s, w + s1 + 1, Digit)
        c == SpanLen(s, w + s1 + d + 1, {","})
        c1 == IF c >= 1 THEN 1 ELSE 0
        s2 == SpanLen(s, w + s1 + d + c1 + 1, Space)
        y == w + s1 + d + c1 + s2 + 1
    IN  IF /\ w >= 1
           /\ s1 >= 1
           /\ d \in 1..2
           /\ s2 >= 1
           /\ Len(s) = y + 3
           /\ SpanLen(s, y, Digit) = 4
        THEN <<SubSeq(s, 1, w), SubSeq(s, w + s1 + 1, w + s1 + d), SubSeq(s, y, Len(s))>>
        ELSE <<>>

\* re.match(r'^(\d{4})[-](\d{1,2})[-](\d{1,2})$', s)
MatchIso(s) ==
    LET b == SpanLen(s, 6, Digit)
        c == SpanLen(s, b + 7, Digit)
    IN  IF /\ SpanLen(s, 1, Digit) = 4
           /\ Len(s) > 4
           /\ s[5] = "-"
           /\ b \in 1..2
           /\ Len(s) > b + 5
           /\ s[b + 6] = "-"
           /\ c \in 1..2
           /\ Len(s) = b + c + 6
        THEN <<SubSeq(s, 1, 4), SubSeq(s, 6, b + 5), SubSeq(s, b + 7, Len(s))>>
        ELSE <<>>

\* Pattern 1: MM/DD/YYYY or MM-DD-YYYY
Pattern1(s) ==
    LET match == MatchNumericTriple(s)
        month == StrToInt(match[1])
        day == StrToInt(match[2])
        year == StrToInt(match[3])
    IN  IF match # <<>> /\ month \in 1..12 /\ day \in 1..31 /\ year \in 1000..9999
        THEN FormatDate(month, day, year)
        ELSE None

\* Pattern 2 as a copy of pattern 1 that reads the month first
Pattern2_MonthFirst(s) == Pattern1(s)

\* Pattern 2: DD/MM/YYYY or DD-MM-YYYY
Pattern2(s) ==
    LET match == MatchNumericTriple(s)
        day == StrToInt(match[1])
        month == StrToInt(match[2])
        year == StrToInt(match[3])
    IN  IF match # <<>> /\ month \in 1..12 /\ day \in 1..31 /\ year \in 1000..9999
        THEN FormatDate(month, day, year)
        ELSE None

\* Pattern 3: DD-Month-YYYY
Pattern3(s) ==
    LET match == MatchDayMonthName(s)
        month_str == Lower(match[2])
        day == StrToInt(match[1])
        year == StrToInt(match[3])
    IN  IF match # <<>> /\ month_str \in DOMAIN month_names /\ day \in 1..31
        THEN FormatDate(month_names[month_str], day, year)
        ELSE None

\* Pattern 4: Month DD, YYYY
Pattern4(s) ==
    LET match == MatchMonthNameDay(s)
        month_str == Lower(match[1])
        day == StrToInt(match[2])
        year == StrToInt(match[3])
    IN  IF match # <<>> /\ month_str \in DOMAIN month_names /\ day \in 1..31
        THEN FormatDate(month_names[month_str], day, year)
        ELSE None

\* Pattern 5: YYYY-MM-DD
Pattern5(s) ==
    LET match == MatchIso(s)
        year == StrToInt(match[1])
        month == StrToInt(match[2])
        day == StrToInt(match[3])
    IN  IF match # <<>> /\ month \in 1..12 /\ day \in 1..31
        THEN FormatDate(month, day, year)
        ELSE None

\* dateutil.parser.parse(date_str, fuzzy=False) is a library outside the
\* repository: it either raises or returns a date, which parse_date formats
\* with strftime("%m/%d/%Y").  du is what it does for the string at hand.
NoDate == [raised |-> TRUE, year |-> 0, month |-> 0, day |-> 0]

DateutilOutcomes == {NoDate, [raised |-> FALSE, year |-> 2025, month |-> 8, day |-> 8]}

\* parse_date(date_str): the string returned and the branch that returned it
ParseDate(ds, du) ==
    IF ds = <<>> \/ ds = NA THEN [rule |-> "sentinel", out |-> NA]
    ELSE LET s == Strip(ds)
             p1 == Pattern1(s)
             p2 == Pattern2(s)
             p3 == Pattern3(s)
             p4 == Pattern4(s)
             p5 == Pattern5(s)
         IN
         IF p1 # None THEN [rule |-> "pattern1", out |-> p1]
         ELSE IF p2 # None THEN [rule |-> "pattern2", out |-> p2]
         ELSE IF p3 # None THEN [rule |-> "pattern3", out |-> p3]
         ELSE IF p4 # None THEN [rule |-> "pattern4", out |-> p4]
         ELSE IF p5 # None THEN [rule |-> "pattern5", out |-> p5]
         ELSE IF ~du.raised
              THEN [rule |-> "dateutil", out |-> FormatDate(du.month, du.day, du.year)]
              ELSE [rule |-> "unchanged", out |-> s]

(***************************************************************************)
(* parse_date as a state machine: an argument is drawn, the call returns.  *)
(***************************************************************************)
NumTokens == {<<"0">>, <<"1">>, <<"5">>, <<"0", "8">>, <<"1", "2">>, <<"1", "3">>, <<"3", "1">>, <<"3", "2">>}
YearTokens == {<<"2", "0", "2", "5">>, <<"0", "0", "2", "5">>, <<"0", "9", "9", "9">>, <<"1", "0", "0", "0">>}
MonthTokens == {<<"a", "u", "g", "u", "s", "t">>, <<"A", "u", "g">>, <<"S", "E", "P", "T">>, <<"M", "a", "y">>, <<"a", "u", "g", "u", "s", "t", "u", "s">>}

NumericTripleInputs ==
    {a \o <<s1>> \o b \o <<s2>> \o y :
        a \in NumTokens, s1 \in {"/", "-"}, b \in NumTokens, s2 \in {"/", "-"},
        y \in YearTokens}

DayMonthNameInputs ==
    {d \o <<"-">> \o m \o <<"-">> \o y : d \in NumTokens, m \in MonthTokens, y \in YearTokens}

MonthNameDayInputs ==
    {m \o <<" ">> \o d \o c \o <<" ">> \o y :
        m \in MonthTokens, d \in NumTokens, c \in {<<>>, <<",">>}, y \in YearTokens}

IsoInputs ==
    {y \o <<"-">> \o m \o <<"-">> \o d : y \in YearTokens, m \in NumTokens, d \in NumTokens}

OtherDateInputs ==
    {<<>>, NA, <<" ">>, <<" ", "N", "/", "A", " ">>, <<"s", "o", "o", "n">>, <<" ", "0", "8", "-", "a", "u", "g", "u", "s", "t", "-", "2", "0", "2", "5", " ">>, <<"0", "8", "-", "a", "u", "g", "u", "s", "t", "-", "2", "0", "2", "5">>,
     <<"A", "u", "g", "u", "s", "t", " ", "0", "8", ",", " ", "2", "0", "2", "5">>, <<"A", "u", "g", "u", "s", "t", " ", " ", "8", " ", "2", "0", "2", "5">>, <<"0", "8", "/", "0", "8", "/", "2", "0", "2", "5", " ">>, <<"2", "0", "2", "5", "/", "0", "8", "/", "0", "8">>,
     <<"1", "2", "3", "-", "0", "8", "-", "2", "0", "2", "5">>, <<"0", "8", "-", "0", "8", "-", "2", "0", "2", "5", "0">>, <<"8", " ", "a", "u", "g", "u", "s", "t", " ", "2", "0", "2", "5">>}

DateInputs ==
    NumericTripleInputs \cup DayMonthNameInputs \cup MonthNameDayInputs
        \cup IsoInputs \cup OtherDateInputs

InitDate ==
    /\ pc = "call"
    /\ date_str \in DateInputs
    /\ dateutil \in DateutilOutcomes
    /\ parsed = None
    /\ json_data = None
    /\ doc_type = None
    /\ labels = None
    /\ base_data = None
    /\ NoBatch

CallParseDate ==
    /\ pc = "call"
    /\ parsed' = ParseDate(date_str, dateutil)
    /\ pc' = "return"
    /\ UNCHANGED <<date_str, dateutil, json_data, doc_type, labels, base_data, batchvars>>

NextDate == CallParseDate

SpecDate == InitDate /\ [][NextDate]_vars

(***************************************************************************)
(* Claims about parse_date                                                 *)
(***************************************************************************)
PatternRules == {"pattern1", "pattern2", "pattern3", "pattern4", "pattern5"}

\* s is MM/DD/YYYY with a two-digit month 01-12, a two-digit day 01-31 and a
\* four-digit year 1000-9999
WellFormedDate(s) ==
    /\ Len(s) = 10
    /\ s[3] = "/"
    /\ s[6] = "/"
    /\ \A k \in {1, 2, 4, 5, 7, 8, 9, 10} : s[k] \in Digit
    /\ StrToInt(SubSeq(s, 1, 2)) \in 1..12
    /\ StrToInt(SubSeq(s, 4, 5)) \in 1..31
    /\ StrToInt(SubSeq(s, 7, 10)) \in 1000..9999

\* C8: every input decided by pattern rules 1-5 of parse_date yields either a
\* well-formed MM/DD/YYYY string (month 01-12, day 01-31, four-digit year
\* 1000-9999) or the input unchanged.
C8_PatternRulesEmitWellFormedDates ==
    (pc = "return" /\ parsed.rule \in PatternRules)
        => (WellFormedDate(parsed.out) \/ parsed.out = date_str)

\* The numeric-triple shape of rules 1 and 2, and its three numbers
IsNumericTriple(ds) == MatchNumericTriple(Strip(ds)) # <<>>
TripleNumber(ds, k) == StrToInt(MatchNumericTriple(Strip(ds))[k])

\* C9 as stated: rule 2 is unreachable, no input is ever normalized by reading
\* its first number as the day and its second number as the month.
C9_Rule2Unreachable ==
    (pc = "return" /\ IsNumericTriple(date_str)) => parsed.rule # "pattern2"

\* C9 as amended: for an input of the numeric-triple shape, rule 1 decides
\* exactly when the first number is 1-12, the second 1-31 and the year
\* 1000-9999; rule 2 decides exactly when the first number is 13-31, the second
\* 1-12 and the year 1000-9999, and then the first number is read as the day
\* and the second as the month; no other input is decided by rule 1 or 2.
C9_Rule2DecidesDayFirst ==
    pc = "return" =>
        IF IsNumericTriple(date_str)
        THEN LET a == TripleNumber(date_str, 1)
                 b == TripleNumber(date_str, 2)
                 y == TripleNumber(date_str, 3)
             IN  /\ parsed.rule = "pattern1"
                        <=> (a \in 1..12 /\ b \in 1..31 /\ y \in 1000..9999)
                 /\ parsed.rule = "pattern2"
                        <=> (a \in 13..31 /\ b \in 1..12 /\ y \in 1000..9999)
                 /\ parsed.rule = "pattern1" => parsed.out = FormatDate(a, b, y)
                 /\ parsed.rule = "pattern2" => parsed.out = FormatDate(b, a, y)
        ELSE parsed.rule \notin {"pattern1", "pattern2"}

\* a numeric triple whose first number cannot be a month was normalized by rule 2
C9_Witness ==
    /\ pc = "return"
    /\ IsNumericTriple(date_str)
    /\ parsed.rule = "pattern2"
    /\ TripleNumber(date_str, 1) > 12

(***************************************************************************)
(* JSON values.  A value is a string ("str"), a number ("num", v is what   *)
(* str() prints for it), null ("null"), or missing from its object         *)
(* ("absent"); "bad" is any value of a type the code does not expect where *)
(* an object or a list is needed.                                          *)
(***************************************************************************)
Absent == [k |-> "absent", v |-> <<>>]
Null == [k |-> "null", v |-> <<>>]
Str(s) == [k |-> "str", v |-> s]
Num(s) == [k |-> "num", v |-> s]

\* dict.get(key, default) of a value that may be missing
Get(j, default) == IF j.k = "absent" THEN default ELSE j

\* not value
Falsy(j) ==
    \/ j.k = "null"
    \/ j.k = "str" /\ j.v = <<>>
    \/ j.k = "num" /\ StrToInt(j.v) = 0

\* get_field_value with "null" left out of the list of blanks
GetFieldValue_NullKept(j) ==
    IF Falsy(j) \/ Strip(j.v) \in {<<>>, <<" ">>, <<"N", "/", "A">>, <<"N", "o", "n", "e">>}
    THEN NA
    ELSE Strip(j.v)

\* get_field_value(value)
GetFieldValue(j) ==
    IF Falsy(j) \/ Strip(j.v) \in {<<>>, <<" ">>, <<"N", "/", "A">>, <<"n", "u", "l", "l">>, <<"N", "o", "n", "e">>}
    THEN NA
    ELSE Strip(j.v)

(***************************************************************************)
(* identify_document_type                                                  *)
(***************************************************************************)
DocTypes == {"paystub", "w2", "1120"}

\* the metadata checks with the 1120 indicators tried before the w2 ones
MetaIndicator_1120First(meta_type, title) ==
    IF \E ind \in {<<"1", "1", "2", "0">>, <<"f", "o", "r", "m", " ", "1", "1", "2", "0">>} : Contains(meta_type, ind) \/ Contains(title, ind)
    THEN "1120"
    ELSE IF \E ind \in {<<"w", "2">>, <<"w", "-", "2">>, <<"i", "n", "c", "o", "m", "e", " ", "w", "-", "2">>} :
                Contains(meta_type, ind) \/ Contains(title, ind)
    THEN "w2"
    ELSE "nomatch"

\* the two any(...) checks on the lower-cased Meta.Type and Title
MetaIndicator(meta_type, title) ==
    IF \E ind \in {<<"w", "2">>, <<"w", "-", "2">>, <<"i", "n", "c", "o", "m", "e", " ", "w", "-", "2">>} :
            Contains(meta_type, ind) \/ Contains(title, ind)
    THEN "w2"
    ELSE IF \E ind \in {<<"1", "1", "2", "0">>, <<"f", "o", "r", "m", " ", "1", "1", "2", "0">>} :
                Contains(meta_type, ind) \/ Contains(title, ind)
    THEN "1120"
    ELSE "nomatch"

\* the first loop over Summary, from skill k on: substring tests on the
\* lower-cased SkillName; "fault" when the loop raises before it decides
RECURSIVE ScanSkillNames(_, _)
ScanSkillNames(summary, k) ==
    IF k > Len(summary) THEN "nomatch"
    ELSE LET skill == summary[k]
             name == Get(skill.SkillName, Str(<<>>))
             skill_name == Lower(name.v)
         IN  IF ~skill.obj \/ name.k # "str" THEN "fault"
             ELSE IF Contains(skill_name, <<"1", "1", "2", "0">>) THEN "1120"
             ELSE IF Contains(skill_name, <<"w", "2">>) \/ Contains(skill_name, <<"w", "-", "2">>) THEN "w2"
             ELSE IF Contains(skill_name, <<"p", "a", "y", "s", "t", "u", "b">>) THEN "paystub"
             ELSE ScanSkillNames(summary, k + 1)

\* the second loop over Summary: exact SkillName matches
RECURSIVE ScanExactSkillNames(_, _)
ScanExactSkillNames(summary, k) ==
    IF k > Len(summary) THEN "nomatch"
    ELSE LET skill == summary[k]
             name == Get(skill.SkillName, Str(<<>>))
         IN  IF ~skill.obj THEN "fault"
             ELSE IF name = Str(<<"I", "C", " ", "-", " ", "1", "1", "2", "0">>) THEN "1120"
             ELSE IF name = Str(<<"I", "C", " ", "-", " ", "W", "2">>) THEN "w2"
             ELSE IF name = Str(<<"I", "C", " ", "-", " ", "P", "a", "y", "s", "t", "u", "b", "s">>) THEN "paystub"
             ELSE ScanExactSkillNames(summary, k + 1)

\* the body of the try block: a document type, or "fault" when it raises
IdentifyBody(json) ==
    IF ~json.obj \/ json.Meta.k \notin {"absent", "obj"} THEN "fault"
    ELSE LET meta_type == IF json.Meta.k = "absent" THEN Str(<<>>)
                          ELSE Get(json.Meta.Type, Str(<<>>))
             title == Get(json.Title, Str(<<>>))
             lower_type == Lower(meta_type.v)
             lower_title == Lower(title.v)
             by_meta == MetaIndicator(lower_type, lower_title)
             by_name == ScanSkillNames(json.Summary.items, 1)
             by_exact_name == ScanExactSkillNames(json.Summary.items, 1)
         IN  IF meta_type.k # "str" \/ title.k # "str" THEN "fault"
             ELSE IF by_meta # "nomatch" THEN by_meta
             ELSE IF json.Summary.k \notin {"absent", "list"} THEN "fault"
             ELSE IF by_name # "nomatch" THEN by_name
             ELSE IF by_exact_name # "nomatch" THEN by_exact_name
             ELSE "paystub"

\* identify_document_type(json_data): except Exception returns "paystub"
IdentifyDocumentType(json) ==
    LET returned == IdentifyBody(json)
    IN  IF returned = "fault" THEN "paystub" ELSE returned

(***************************************************************************)
(* identify_document_type as a state machine                               *)
(***************************************************************************)
MaxSkills == 2

Skill(name, forest) == [obj |-> TRUE, SkillName |-> name, Labels |-> forest]
BadSkill == [obj |-> FALSE, SkillName |-> Absent, Labels |-> <<>>]

Meta(type, file_name) == [k |-> "obj", Type |-> type, FileName |-> file_name]
NoMeta == [k |-> "absent", Type |-> Absent, FileName |-> Absent]
NullMeta == [k |-> "null", Type |-> Absent, FileName |-> Absent]

List(items) == [k |-> "list", items |-> items]
NoSummary == [k |-> "absent", items |-> <<>>]
NullSummary == [k |-> "null", items |-> <<>>]

Record(meta, title, summary) ==
    [obj |-> TRUE, Meta |-> meta, Title |-> title, Summary |-> summary]
\* a file whose JSON is not an object
NotAnObject == [obj |-> FALSE, Meta |-> NoMeta, Title |-> Absent, Summary |-> NoSummary]

SeqsUpTo(S, n) == UNION {[1..m -> S] : m \in 0..n}

ClassifyTypes ==
    {Absent, Null, Num(<<"1", "1", "2", "0">>), Str(<<"I", "n", "c", "o", "m", "e", " ", "W", "-", "2">>), Str(<<"F", "o", "r", "m", " ", "1", "1", "2", "0">>), Str(<<"W", "2">>),
     Str(<<"P", "a", "y", "s", "t", "u", "b">>)}
ClassifyTitles == {Absent, Num(<<"2">>), Str(<<"w", "-", "2", " ", "o", "r", " ", "1", "1", "2", "0">>), Str(<<"F", "o", "r", "m", " ", "1", "1", "2", "0">>)}
ClassifySkillNames ==
    {Absent, Num(<<"1", "1", "2", "0">>), Str(<<"I", "C", " ", "-", " ", "W", "2">>), Str(<<"I", "C", " ", "-", " ", "P", "a", "y", "s", "t", "u", "b", "s">>), Str(<<"I", "C", " ", "-", " ", "1", "1", "2", "0">>),
     Str(<<"2", "0", "2", "3", " ", "1", "1", "2", "0", " ", "C", "o", "r", "p", "o", "r", "a", "t", "i", "o", "n", "1">>), Str(<<"W", "-", "2", " ", "f", "o", "r", " ", "1", "1", "2", "0">>), Str(<<"m", "y", " ", "P", "A", "Y", "S", "T", "U", "B", "S">>),
     Str(<<"o", "t", "h", "e", "r">>)}
ClassifySkills == {Skill(n, <<>>) : n \in ClassifySkillNames} \cup {BadSkill}

ClassifyInputs ==
    {NotAnObject} \cup
    {Record(m, t, s) :
        m \in {NoMeta, NullMeta} \cup {Meta(ty, Absent) : ty \in ClassifyTypes},
        t \in ClassifyTitles,
        s \in {NoSummary, NullSummary}
                \cup {List(items) : items \in SeqsUpTo(ClassifySkills, MaxSkills)}}

InitClassify ==
    /\ pc = "call"
    /\ json_data \in ClassifyInputs
    /\ doc_type = None
    /\ date_str = None
    /\ dateutil = None
    /\ parsed = None
    /\ labels = None
    /\ base_data = None
    /\ NoBatch

CallIdentifyDocumentType ==
    /\ pc = "call"
    /\ doc_type' = IdentifyDocumentType(json_data)
    /\ pc' = "return"
    /\ UNCHANGED <<json_data, date_str, dateutil, parsed, labels, base_data, batchvars>>

NextClassify == CallIdentifyDocumentType

SpecClassify == InitClassify /\ [][NextClassify]_vars

(***************************************************************************)
(* Claim about identify_document_type                                      *)
(***************************************************************************)
\* the record's Meta.Type and Title are strings (or missing)
MetaReadable(json) ==
    /\ json.obj
    /\ json.Meta.k \in {"absent", "obj"}
    /\ json.Meta.Type.k \in {"absent", "str"}
    /\ json.Title.k \in {"absent", "str"}

\* Meta.Type or Title contains sub, case-insensitively
MetaMentions(json, sub) ==
    \/ Contains(Lower(json.Meta.Type.v), sub)
    \/ Contains(Lower(json.Title.v), sub)

SkillReadable(skill) == skill.obj /\ skill.SkillName.k \in {"absent", "str"}

SkillMentions(skill, sub) == Contains(Lower(skill.SkillName.v), sub)

\* the type a readable skill name stands for by substring, or "nomatch"
LooseType(skill) ==
    IF SkillMentions(skill, <<"1", "1", "2", "0">>) THEN "1120"
    ELSE IF SkillMentions(skill, <<"w", "2">>) \/ SkillMentions(skill, <<"w", "-", "2">>) THEN "w2"
    ELSE IF SkillMentions(skill, <<"p", "a", "y", "s", "t", "u", "b">>) THEN "paystub"
    ELSE "nomatch"

ExactType(skill) ==
    IF skill.SkillName = Str(<<"I", "C", " ", "-", " ", "1", "1", "2", "0">>) THEN "1120"
    ELSE IF skill.SkillName = Str(<<"I", "C", " ", "-", " ", "W", "2">>) THEN "w2"
    ELSE IF skill.SkillName = Str(<<"I", "C", " ", "-", " ", "P", "a", "y", "s", "t", "u", "b", "s">>) THEN "paystub"
    ELSE "nomatch"

\* the first skill, in Summary order, that ends the substring scan: by a
\* match, or by a fault (a skill that is no object or whose name is no string)
Deciders(items) ==
    {k \in 1..Len(items) : ~SkillReadable(items[k]) \/ LooseType(items[k]) # "nomatch"}
ExactMatches(items) == {k \in 1..Len(items) : ExactType(items[k]) # "nomatch"}
Min(S) == CHOOSE k \in S : \A m \in S : k <= m

\* C3: identify_document_type always returns one of paystub, w2, 1120, in the
\* stated first-match-wins order: w2 if Meta.Type or Title mentions "w2" or
\* "w-2"; otherwise 1120 if either mentions "1120"; otherwise the type of the
\* first skill whose lower-cased name contains "1120", "w2"/"w-2" or "paystub";
\* otherwise the type of an exact skill-name match; otherwise paystub; and
\* paystub whenever a fault (a non-string Type, Title or SkillName, a
\* malformed Meta, Summary or skill) is met before a match.
C3_FirstMatchWins ==
    pc = "return" =>
        /\ doc_type \in DocTypes
        /\ LET json == json_data
               items == json.Summary.items
           IN  IF ~MetaReadable(json) THEN doc_type = "paystub"
               ELSE IF MetaMentions(json, <<"w", "2">>) \/ MetaMentions(json, <<"w", "-", "2">>)
                    THEN doc_type = "w2"
               ELSE IF MetaMentions(json, <<"1", "1", "2", "0">>) THEN doc_type = "1120"
               ELSE IF json.Summary.k \notin {"absent", "list"} THEN doc_type = "paystub"
               ELSE IF Deciders(items) # {}
                    THEN LET first == items[Min(Deciders(items))]
                         IN  IF SkillReadable(first)
                             THEN doc_type = LooseType(first)
                             ELSE doc_type = "paystub"
               ELSE IF ExactMatches(items) # {}
                    THEN doc_type = ExactType(items[Min(ExactMatches(items))])
               ELSE doc_type = "paystub"

\* a record whose metadata mentions both w2 and 1120 was classified w2, and
\* the scan of the skills was not needed
C3_Witness ==
    /\ pc = "return"
    /\ MetaReadable(json_data)
    /\ MetaMentions(json_data, <<"w", "-", "2">>)
    /\ MetaMentions(json_data, <<"1", "1", "2", "0">>)
    /\ doc_type = "w2"

(***************************************************************************)
(* extract_from_labels                                                     *)
(***************************************************************************)
\* what a call yields when it raises; extract_document_data catches it
Fault == [fault |-> TRUE]

Value(j) == [obj |-> TRUE, Value |-> j]
\* an entry of Values that is not an object
BadValue == [obj |-> FALSE, Value |-> Absent]

Label(name, values, children) ==
    [obj |-> TRUE, LabelName |-> name, Values |-> values, ChildLabels |-> children]
\* an entry of Labels that is not an object
BadLabel == [obj |-> FALSE, LabelName |-> Absent, Values |-> <<>>, ChildLabels |-> <<>>]

\* the loop over label["Values"] raises at an entry that is not an object
RaisesOnValues(values) == \E k \in 1..Len(values) : ~values[k].obj

\* the loop over label["Values"]: the cleaned values that are not "N/A", in order
RECURSIVE ValidValues(_)
ValidValues(values) ==
    IF values = <<>> THEN <<>>
    ELSE LET value == GetFieldValue(Get(Head(values).Value, Str(NA)))
         IN  IF value # <<>> /\ value # NA
             THEN <<value>> \o ValidValues(Tail(values))
             ELSE ValidValues(Tail(values))

\* a label that writes its field only while the field is still "N/A"
ExtractLabel_FirstWriterWins(label, label_map, base) ==
    IF ~label.obj THEN Fault
    ELSE IF /\ label.LabelName.k = "str"
            /\ label.LabelName.v \in DOMAIN label_map
            /\ label.Values # <<>>
         THEN LET valid_values == ValidValues(label.Values)
              IN  IF RaisesOnValues(label.Values) THEN Fault
                  ELSE IF valid_values # <<>> /\ base[label_map[label.LabelName.v]] = NA
                       THEN [base EXCEPT ![label_map[label.LabelName.v]] = valid_values[1]]
                  ELSE base
    ELSE base

\* the first half of the loop body: the label's own Values
ExtractLabel(label, label_map, base) ==
    IF ~label.obj THEN Fault
    ELSE IF /\ label.LabelName.k = "str"
            /\ label.LabelName.v \in DOMAIN label_map
            /\ label.Values # <<>>
         THEN LET valid_values == ValidValues(label.Values)
              IN  IF RaisesOnValues(label.Values) THEN Fault
                  ELSE IF valid_values # <<>>
                       THEN [base EXCEPT ![label_map[label.LabelName.v]] = valid_values[1]]
                  ELSE base
    ELSE base

\* extract_from_labels(labels, label_map, base_data): base_data afterwards
RECURSIVE ExtractFromLabels(_, _, _)
ExtractFromLabels(ls, label_map, base) ==
    IF ls = <<>> THEN base
    ELSE LET label == Head(ls)
             own == ExtractLabel(label, label_map, base)
             below == IF own # Fault /\ label.ChildLabels # <<>>
                      THEN ExtractFromLabels(label.ChildLabels, label_map, own)
                      ELSE own
         IN  IF below = Fault THEN Fault
             ELSE ExtractFromLabels(Tail(ls), label_map, below)

\* the label map and the seeded record of a w2 document
W2LabelMap ==
    (<<"E", "m", "p", "l", "o", "y", "e", "e", " ", "N", "a", "m", "e">> :> "employee_name") @@ (<<"E", "m", "p", "l", "o", "y", "e", "r", " ", "N", "a", "m", "e">> :> "employer_name")
        @@ (<<"Y", "e", "a", "r">> :> "year")
W2Fields == {"employee_name", "employer_name", "year"}

(***************************************************************************)
(* extract_from_labels as a state machine, on the forests of at most       *)
(* MaxNodes labels                                                         *)
(***************************************************************************)
MaxNodes == 3

\* what a label of a drawn forest carries: its name and its Values
NodeChoices ==
    {<<n, v>> : n \in {Str(<<"E", "m", "p", "l", "o", "y", "e", "e", " ", "N", "a", "m", "e">>)},
                v \in {<<Value(Str(<<"A", "l">>))>>, <<Value(Str(<<" ", "B", "o", " ">>))>>, <<Value(Str(<<"n", "u", "l", "l">>))>>,
                       <<Value(Str(<<"N", "U", "L", "L">>))>>, <<Value(Str(<<"n", "u", "l", "l">>)), Value(Str(<<"C", "y">>))>>,
                       <<Value(Str(<<"A", "l">>)), Value(Str(<<"N", "u", "l", "l">>))>>, <<>>, <<BadValue>>}}
    \cup {<<Str(<<"E", "m", "p", "l", "o", "y", "e", "r", " ", "N", "a", "m", "e">>), <<Value(Null), Value(Num(<<"7">>))>>>>,
          <<Str(<<"Z", "i", "p">>), <<Value(Str(<<"A", "l">>))>>>>}

\* the shapes of the ordered forests of exactly n labels: a forest is the
\* sequence of its trees, a tree the forest of its children
RECURSIVE Shapes(_)
Shapes(n) ==
    IF n = 0 THEN {<<>>}
    ELSE UNION {
            {<<children>> \o rest : children \in Shapes(m - 1), rest \in Shapes(n - m)}
            : m \in 1..n}

RECURSIVE Size(_)
Size(shape) == IF shape = <<>> THEN 0 ELSE 1 + Size(Head(shape)) + Size(Tail(shape))

\* the forest of this shape whose labels carry, in depth-first order, the
\* choices from position k on
RECURSIVE Forest(_, _, _)
Forest(shape, choices, k) ==
    IF shape = <<>> THEN <<>>
    ELSE <<Label(choices[k][1], choices[k][2], Forest(Head(shape), choices, k + 1))>>
            \o Forest(Tail(shape), choices, k + 1 + Size(Head(shape)))

InitLabels ==
    /\ pc = "call"
    /\ \E n \in 0..MaxNodes : \E shape \in Shapes(n) : \E choices \in [1..n -> NodeChoices] :
            labels = Forest(shape, choices, 1)
    /\ base_data = [f \in W2Fields |-> NA]
    /\ json_data = None
    /\ doc_type = None
    /\ date_str = None
    /\ dateutil = None
    /\ parsed = None
    /\ NoBatch

CallExtractFromLabels ==
    /\ pc = "call"
    /\ base_data' = ExtractFromLabels(labels, W2LabelMap, base_data)
    /\ pc' = "return"
    /\ UNCHANGED <<labels, json_data, doc_type, date_str, dateutil, parsed, batchvars>>

NextLabels == CallExtractFromLabels

SpecLabels == InitLabels /\ [][NextLabels]_vars

(***************************************************************************)
(* Claims about extract_from_labels                                        *)
(***************************************************************************)
\* the labels of a forest in depth-first order: a parent before its
\* children, siblings in sequence order
RECURSIVE Preorder(_)
Preorder(ls) ==
    IF ls = <<>> THEN <<>>
    ELSE <<Head(ls)>> \o Preorder(Head(ls).ChildLabels) \o Preorder(Tail(ls))

MapsTo(label, label_map, f) ==
    /\ label.LabelName.k = "str"
    /\ label.LabelName.v \in DOMAIN label_map
    /\ label_map[label.LabelName.v] = f

\* the positions of the label's Values whose cleaned form is not "N/A"
ValidPositions(label) ==
    {k \in 1..Len(label.Values) : GetFieldValue(label.Values[k].Value) # NA}

\* the first entry of the label's Values whose cleaned form is not "N/A"
FirstValid(label) ==
    IF ValidPositions(label) = {} THEN None
    ELSE GetFieldValue(label.Values[Min(ValidPositions(label))].Value)

Max(S) == CHOOSE k \in S : \A m \in S : k >= m

Visited == Preorder(labels)
MappedTo(f) == {k \in 1..Len(Visited) : MapsTo(Visited[k], W2LabelMap, f)}
Writers(f) == {k \in MappedTo(f) : ValidPositions(Visited[k]) # {}}
Returned == pc = "return" /\ base_data # Fault

\* C4 as stated: when two labels of the forest map to the same field (both
\* with Values, one at least with a value that is not "N/A"), the field
\* holds, after the traversal, the first non-"N/A" value of the one visited
\* last in depth-first order.
C4_LastVisitedLabelWins ==
    Returned =>
        \A f \in W2Fields :
            (/\ Cardinality(MappedTo(f)) = 2
             /\ \A k \in MappedTo(f) : Visited[k].Values # <<>>
             /\ Writers(f) # {})
                => base_data[f] = FirstValid(Visited[Max(MappedTo(f))])

\* C4 as amended: after the traversal a field holds the first non-"N/A" value
\* of the label visited last, in depth-first order, among the labels that map
\* to the field and have a value whose cleaned form is not "N/A"; a label
\* without such a value overwrites nothing, and a field no label writes keeps
\* its seeded "N/A".
C4_LastWriterWins ==
    Returned =>
        \A f \in W2Fields :
            IF Writers(f) = {} THEN base_data[f] = NA
            ELSE base_data[f] = FirstValid(Visited[Max(Writers(f))])

\* a parent and its own child both wrote employee_name, with different
\* values, and the field holds the child's
C4_Witness ==
    /\ Returned
    /\ \E k \in 1..Len(labels) :
        /\ MapsTo(labels[k], W2LabelMap, "employee_name")
        /\ labels[k].ChildLabels # <<>>
        /\ MapsTo(labels[k].ChildLabels[1], W2LabelMap, "employee_name")
        /\ FirstValid(labels[k]) # None
        /\ FirstValid(labels[k].ChildLabels[1]) # None
        /\ FirstValid(labels[k]) # FirstValid(labels[k].ChildLabels[1])
        /\ Writers("employee_name") = {k, k + 1}
        /\ base_data["employee_name"] = FirstValid(labels[k].ChildLabels[1])

\* the forests obtained from ls by removing one entry of one label's Values,
\* the entry's value being in nulls
RECURSIVE Removals(_, _)
Removals(ls, nulls) ==
    IF ls = <<>> THEN {}
    ELSE LET label == Head(ls)
             own == {[label EXCEPT !.Values =
                            SubSeq(label.Values, 1, k - 1)
                                \o SubSeq(label.Values, k + 1, Len(label.Values))] :
                        k \in {m \in 1..Len(label.Values) : label.Values[m].Value \in nulls}}
             below == {[label EXCEPT !.ChildLabels = c] :
                        c \in Removals(label.ChildLabels, nulls)}
         IN  {<<l>> \o Tail(ls) : l \in own \cup below}
                \cup {<<label>> \o rest : rest \in Removals(Tail(ls), nulls)}

\* the values of all Values entries of the forest
EntryValues ==
    UNION {{Visited[k].Values[m].Value : m \in 1..Len(Visited[k].Values)} :
            k \in 1..Len(Visited)}

\* a value equal to "null" in some letter case, and in lower case
NullInAnyCase == {j \in EntryValues : j.k = "str" /\ Lower(j.v) = <<"n", "u", "l", "l">>}
NullInLowerCase == {j \in EntryValues : j = Str(<<"n", "u", "l", "l">>)}

\* a Values entry with a value in nulls is treated as an absent one
TreatedAsAbsent(nulls) ==
    /\ \A j \in nulls : GetFieldValue(j) = NA
    /\ base_data # Fault => \A f \in W2Fields : Str(base_data[f]) \notin nulls
    /\ \A without \in Removals(labels, nulls) :
            ExtractFromLabels(without, W2LabelMap, [f \in W2Fields |-> NA]) = base_data

\* C7 as stated: a Values entry equal to "null" in any letter case is
\* cleaned to "N/A", is never selected, and the fields extracted equal those
\* extracted with the entry removed.
C7_NullInAnyCaseIsAbsent == pc = "return" => TreatedAsAbsent(NullInAnyCase)

\* C7 as amended: a Values entry equal to "null" in lower case is cleaned to
\* "N/A", is never selected, and the fields extracted equal those extracted
\* with the entry removed; "NULL", "Null" and the other letter cases are kept
\* as ordinary values.
C7_LowerCaseNullIsAbsent == pc = "return" => TreatedAsAbsent(NullInLowerCase)

\* a mapped label whose Values are "null" and then a real value gave its field
\* the real value
C7_Witness ==
    /\ Returned
    /\ Len(labels) = 1
    /\ MapsTo(labels[1], W2LabelMap, "employee_name")
    /\ Len(labels[1].Values) = 2
    /\ labels[1].Values[1].Value = Str(<<"n", "u", "l", "l">>)
    /\ base_data["employee_name"] = GetFieldValue(labels[1].Values[2].Value)
    /\ base_data["employee_name"] # NA

(***************************************************************************)
(* extract_document_data                                                   *)
(***************************************************************************)
\* required_fields, in the order of the lists in the code
RequiredFields(t) ==
    IF t = "paystub"
    THEN <<"employee_name", "employer_name", "pay_period_end_date",
           "pay_period_start_date", "year_to_date_earnings">>
    ELSE IF t = "w2" THEN <<"employee_name", "employer_name", "year">>
    ELSE <<"name", "year", "beginning_tax_year", "ending_tax_year">>

\* the fields base_data.update(...) seeds with "N/A"
SeededFields(t) ==
    IF t = "paystub"
    THEN {"employee_name", "employer_name", "pay_period_end_date",
          "pay_period_start_date", "year_to_date_earnings"}
    ELSE IF t = "w2" THEN {"employee_name", "employer_name", "year"}
    ELSE {"name", "year", "beginning_tax_year", "ending_tax_year"}

\* skill_name with the 1120 skill named as the classifier's exact list names it
SkillNameOf_AsClassified(t) ==
    IF t = "paystub" THEN <<"I", "C", " ", "-", " ", "P", "a", "y", "s", "t", "u", "b", "s">>
    ELSE IF t = "w2" THEN <<"I", "C", " ", "-", " ", "W", "2">>
    ELSE <<"I", "C", " ", "-", " ", "1", "1", "2", "0">>

\* skill_name
SkillNameOf(t) ==
    IF t = "paystub" THEN <<"I", "C", " ", "-", " ", "P", "a", "y", "s", "t", "u", "b", "s">>
    ELSE IF t = "w2" THEN <<"I", "C", " ", "-", " ", "W", "2">>
    ELSE <<"2", "0", "2", "3", " ", "1", "1", "2", "0", " ", "C", "o", "r", "p", "o", "r", "a", "t", "i", "o", "n", "1">>

\* label_map
LabelMapOf(t) ==
    IF t = "paystub"
    THEN (<<"E", "m", "p", "l", "o", "y", "e", "e", " ", "N", "a", "m", "e">> :> "employee_name") @@ (<<"E", "m", "p", "l", "o", "y", "e", "r", " ", "N", "a", "m", "e">> :> "employer_name")
            @@ (<<"P", "a", "y", " ", "P", "e", "r", "i", "o", "d", " ", "E", "n", "d", " ", "D", "a", "t", "e">> :> "pay_period_end_date")
            @@ (<<"P", "a", "y", " ", "P", "e", "r", "i", "o", "d", " ", "S", "t", "a", "r", "t", " ", "D", "a", "t", "e">> :> "pay_period_start_date")
            @@ (<<"Y", "e", "a", "r", " ", "t", "o", " ", "D", "a", "t", "e", " ", "E", "a", "r", "n", "i", "n", "g", "s">> :> "year_to_date_earnings")
    ELSE IF t = "w2"
    THEN (<<"E", "m", "p", "l", "o", "y", "e", "e", " ", "N", "a", "m", "e">> :> "employee_name") @@ (<<"E", "m", "p", "l", "o", "y", "e", "r", " ", "N", "a", "m", "e">> :> "employer_name")
            @@ (<<"Y", "e", "a", "r">> :> "year")
    ELSE (<<"N", "a", "m", "e">> :> "name") @@ (<<"1", "1", "2", "0", " ", "Y", "e", "a", "r">> :> "year")
            @@ (<<"B", "e", "g", "i", "n", "n", "i", "n", "g", " ", "D", "a", "t", "e", " ", "O", "f", " ", "T", "a", "x", " ", "Y", "e", "a", "r">> :> "beginning_tax_year")
            @@ (<<"E", "n", "d", "i", "n", "g", " ", "D", "a", "t", "e", " ", "O", "f", " ", "T", "a", "x", " ", "Y", "e", "a", "r">> :> "ending_tax_year")

\* date_fields of parse_date_fields, in the order of its lists
DateFields(t) ==
    IF t = "paystub" THEN <<"pay_period_end_date", "pay_period_start_date">>
    ELSE IF t = "1120" THEN <<"beginning_tax_year", "ending_tax_year">>
    ELSE <<>>

\* what dateutil does for the string s, du giving it for the strings it is
\* known to parse or to reject
DateutilFor(du, s) == IF s \in DOMAIN du THEN du[s] ELSE NoDate

\* parse_date_fields(base_data, doc_type), from date field k on
RECURSIVE ParseDateFields(_, _, _, _)
ParseDateFields(base, t, du, k) ==
    IF k > Len(DateFields(t)) THEN base
    ELSE LET field == DateFields(t)[k]
         IN  IF field \in DOMAIN base /\ base[field] # NA
             THEN ParseDateFields(
                    [base EXCEPT ![field] = ParseDate(base[field], DateutilFor(du, base[field])).out],
                    t, du, k + 1)
             ELSE ParseDateFields(base, t, du, k + 1)

\* the loop over Summary, from skill k on: the index of the first skill whose
\* SkillName equals skill_name, 0 when there is none, -1 when the loop raises
\* at a skill that is not an object
RECURSIVE FindSkill(_, _, _)
FindSkill(summary, skill_name, k) ==
    IF k > Len(summary) THEN 0
    ELSE IF ~summary[k].obj THEN -1
    ELSE IF summary[k].SkillName = Str(skill_name) THEN k
    ELSE FindSkill(summary, skill_name, k + 1)

\* a validation that looks at all required fields but the first
MissingFields_FirstFieldUnchecked(base, required) ==
    SelectSeq(SubSeq(required, 2, Len(required)),
              LAMBDA field : base[field] = NA \/ base[field] = <<>>)

\* missing_fields: the required fields that are "N/A" or empty, in order
MissingFields(base, required) ==
    SelectSeq(required, LAMBDA field : base[field] = NA \/ base[field] = <<>>)

\* the triples extract_document_data returns
NoError == [kind |-> "none", skill |-> <<>>, fields |-> <<>>]
Accepted(base, t) == [data |-> base, doc_type |-> t, error_message |-> NoError]
SkillNotFound(t, skill_name) ==
    [data |-> None, doc_type |-> t,
     error_message |-> [kind |-> "skill not found", skill |-> skill_name, fields |-> <<>>]]
MissingFieldsFound(t, missing_fields) ==
    [data |-> None, doc_type |-> t,
     error_message |-> [kind |-> "missing fields", skill |-> <<>>, fields |-> missing_fields]]
ErrorExtracting ==
    [data |-> None, doc_type |-> "None",
     error_message |-> [kind |-> "error extracting data", skill |-> <<>>, fields |-> <<>>]]

\* base_data as first built: the type, the file name and the seeded fields
BaseData(json, filename, t) ==
    [f \in {"document_type", "filename", "docId"} \cup SeededFields(t) |->
        IF f = "document_type" THEN t
        ELSE IF f = "filename"
             THEN GetFieldValue(IF json.Meta.k = "absent" THEN Str(filename)
                                ELSE Get(json.Meta.FileName, Str(filename)))
                    \o <<".", "j", "s", "o", "n">>
        ELSE IF f = "docId" THEN <<>>
        ELSE NA]

\* base_data of a record classified t, after the skill loop and
\* parse_date_fields; [skill_found |-> FALSE] when
\* no skill has the expected name, Fault when something raised on the way
ExtractedData(json, filename, t, du) ==
        IF ~json.obj \/ json.Meta.k \notin {"absent", "obj"} THEN Fault
        ELSE IF json.Summary.k \notin {"absent", "list"} THEN Fault
        ELSE LET k == FindSkill(json.Summary.items, SkillNameOf(t), 1)
             IN  IF k = -1 THEN Fault
                 ELSE IF k = 0 THEN [skill_found |-> FALSE]
                 ELSE LET base == ExtractFromLabels(json.Summary.items[k].Labels,
                                                    LabelMapOf(t),
                                                    BaseData(json, filename, t))
                      IN  IF base = Fault THEN Fault
                          ELSE ParseDateFields(base, t, du, 1)

\* the triple extract_document_data returns for a record classified t whose
\* base_data came out as base
Returns(base, t) ==
    LET missing_fields == MissingFields(base, RequiredFields(t))
    IN  IF base = Fault THEN ErrorExtracting
        ELSE IF base = [skill_found |-> FALSE] THEN SkillNotFound(t, SkillNameOf(t))
        ELSE IF missing_fields # <<>> THEN MissingFieldsFound(t, missing_fields)
        ELSE Accepted(base @@ ("status" :> "original"), t)

\* extract_document_data(json_data, filename)
ExtractDocumentData(json, filename, du) ==
    LET t == IdentifyDocumentType(json)
    IN  Returns(ExtractedData(json, filename, t, du), t)

(***************************************************************************)
(* get_grouping_key and the grouping pass of process_documents             *)
(***************************************************************************)
\* the fields of the grouping key, in the order of the tuples
KeyFields(t) ==
    IF t = "paystub"
    THEN <<"employee_name", "employer_name", "pay_period_start_date",
           "pay_period_end_date", "year_to_date_earnings">>
    ELSE IF t = "w2" THEN <<"employee_name", "employer_name", "year">>
    ELSE <<"name", "year", "beginning_tax_year", "ending_tax_year">>

\* a grouping key that leaves out the first field of the tuple
GetGroupingKey_FirstFieldDropped(doc, t) ==
    [k \in 1..(Len(KeyFields(t)) - 1) |-> GetFieldValue(Str(doc[KeyFields(t)[k + 1]]))]

\* get_grouping_key(doc, doc_type); the except branch answers a missing field
GetGroupingKey(doc, t) ==
    IF \A k \in 1..Len(KeyFields(t)) : KeyFields(t)[k] \in DOMAIN doc
    THEN [k \in 1..Len(KeyFields(t)) |-> GetFieldValue(Str(doc[KeyFields(t)[k]]))]
    ELSE [k \in 1..Len(KeyFields(t)) |-> NA]

\* the characters of the modelled strings in code point order
CodePoints == <<" ", ",", "-", ".", "/", "0", "1", "2", "3", "4", "5", "6", "7", "8", "9", "A", "B", "C", "D", "E", "F", "G", "H", "I", "J", "K", "L", "M", "N", "O", "P", "Q", "R", "S", "T", "U", "V", "W", "X", "Y", "Z", "_", "a", "b", "c", "d", "e", "f", "g", "h", "i", "j", "k", "l", "m", "n", "o", "p", "q", "r", "s", "t", "u", "v", "w", "x", "y", "z">>
Ord(c) == CHOOSE k \in 1..Len(CodePoints) : CodePoints[k] = c

\* a < b on Python strings
RECURSIVE StrLess(_, _)
StrLess(a, b) ==
    IF b = <<>> THEN FALSE
    ELSE IF a = <<>> THEN TRUE
    ELSE IF Head(a) = Head(b) THEN StrLess(Tail(a), Tail(b))
    ELSE Ord(Head(a)) < Ord(Head(b))

\* the keys of groups, in the order in which the loop over docs first meets them
RECURSIVE GroupKeys(_, _)
GroupKeys(docs, t) ==
    IF docs = <<>> THEN <<>>
    ELSE LET before == GroupKeys(SubSeq(docs, 1, Len(docs) - 1), t)
             key == GetGroupingKey(docs[Len(docs)], t)
         IN  IF \E k \in 1..Len(before) : before[k] = key THEN before
             ELSE Append(before, key)

\* sorted with doc placed behind the members whose filename is not greater
InsertByFilename(sorted, doc) ==
    LET later == {k \in 1..Len(sorted) : StrLess(doc["filename"], sorted[k]["filename"])}
        at == IF later = {} THEN Len(sorted) + 1 ELSE Min(later)
    IN  SubSeq(sorted, 1, at - 1) \o <<doc>> \o SubSeq(sorted, at, Len(sorted))

\* a group left in the order in which its members were appended
SortByFilename_Unsorted(group_docs) == group_docs

\* group_docs.sort(key=lambda x: x["filename"]): a stable sort
RECURSIVE SortByFilename(_)
SortByFilename(group_docs) ==
    IF group_docs = <<>> THEN <<>>
    ELSE InsertByFilename(SortByFilename(SubSeq(group_docs, 1, Len(group_docs) - 1)),
                          group_docs[Len(group_docs)])

\* the enumerate loop: the first member is the original, the others duplicates
MarkStatus(group_docs) ==
    [k \in 1..Len(group_docs) |->
        [f \in DOMAIN group_docs[k] \cup {"status"} |->
            IF f = "status" THEN (IF k = 1 THEN "original" ELSE "duplicate")
            ELSE group_docs[k][f]]]

\* processed_docs for the groups from key k on
RECURSIVE ProcessedDocs(_, _, _, _)
ProcessedDocs(docs, t, keys, k) ==
    IF k > Len(keys) THEN <<>>
    ELSE MarkStatus(SortByFilename(
            SelectSeq(docs, LAMBDA doc : GetGroupingKey(doc, t) = keys[k])))
         \o ProcessedDocs(docs, t, keys, k + 1)

\* the body of the loop over documents.items(): processed_docs of one type
GroupDocs(docs, t) == ProcessedDocs(docs, t, GroupKeys(docs, t), 1)

(***************************************************************************)
(* process_documents                                                       *)
(***************************************************************************)
\* documents.items() is in this order
TypeOrder == <<"paystub", "w2", "1120">>
OutputKey(t) == IF t = "paystub" THEN "Paystubs" ELSE IF t = "w2" THEN "W2" ELSE "1120"

\* the state of the batch loop before the first file
LoopStart ==
    [documents |-> [t \in DocTypes |-> <<>>],
     processed_files |-> 0,
     error_files |-> 0,
     error_file_list |-> <<>>,
     results |-> <<>>]

\* what json.load raised instead of a call of extract_document_data
InvalidJson ==
    [data |-> None, doc_type |-> "None",
     error_message |-> [kind |-> "invalid json", skill |-> <<>>, fields |-> <<>>]]

\* the triple the loop body has for a file: what extract_document_data
\* returns, or what json.load raised
Outcome(file, du) ==
    IF file.parsable THEN ExtractDocumentData(file.json, file.name, du) ELSE InvalidJson

\* a tally in which a file that fails empties the collections
Tally_ErrorDropsDocuments(st, file, r) ==
    IF r.data # None /\ r.doc_type # "None"
    THEN [st EXCEPT !.documents[r.doc_type] = Append(@, r.data),
                    !.processed_files = @ + 1,
                    !.results = Append(@, r)]
    ELSE [st EXCEPT !.documents = [t \in DocTypes |-> <<>>],
                    !.error_files = @ + 1,
                    !.error_file_list = Append(@, file.name),
                    !.results = Append(@, r)]

\* the loop's state after a file whose triple is r: the record is appended to
\* the documents of its type and counted as processed, or the file is counted
\* and listed as an error
Tally(st, file, r) ==
    IF r.data # None /\ r.doc_type # "None"
    THEN [st EXCEPT !.documents[r.doc_type] = Append(@, r.data),
                    !.processed_files = @ + 1,
                    !.results = Append(@, r)]
    ELSE [st EXCEPT !.error_files = @ + 1,
                    !.error_file_list = Append(@, file.name),
                    !.results = Append(@, r)]

\* one iteration of the loop over the files: st is the loop's state before
LoopBody(st, file, du) == Tally(st, file, Outcome(file, du))

\* the loop over the files fs, run to its end
RECURSIVE BatchLoop(_, _)
BatchLoop(fs, du) ==
    IF fs = <<>> THEN LoopStart
    ELSE LoopBody(BatchLoop(SubSeq(fs, 1, Len(fs) - 1), du), fs[Len(fs)], du)

\* final_output of a whole run over the files fs
Catalog(fs, du) ==
    LET loop == BatchLoop(fs, du)
    IN  [key \in {OutputKey(t) : t \in DocTypes} |->
            LET t == CHOOSE t \in DocTypes : OutputKey(t) = key
            IN  GroupDocs(loop.documents[t], t)]

(***************************************************************************)
(* The files of a run                                                      *)
(***************************************************************************)
MaxFiles == 2

File(json, name) == [parsable |-> TRUE, json |-> json, name |-> name]
Unparsable(name) == [parsable |-> FALSE, json |-> NotAnObject, name |-> name]

Leaf(name, value) == Label(Str(name), <<Value(value)>>, <<>>)

\* a W-2 whose employer is a child label of the employee
W2Labels(employee) ==
    <<Label(Str(<<"E", "m", "p", "l", "o", "y", "e", "e", " ", "N", "a", "m", "e">>), <<Value(employee)>>,
            <<Leaf(<<"E", "m", "p", "l", "o", "y", "e", "r", " ", "N", "a", "m", "e">>, Str(<<"E", "d">>))>>),
      Leaf(<<"Y", "e", "a", "r">>, Num(<<"2", "0", "2", "3">>))>>

W2File(employee, file_name) ==
    File(Record(Meta(Str(<<"I", "n", "c", "o", "m", "e", " ", "W", "-", "2">>), Str(file_name)), Absent,
                List(<<Skill(Str(<<"I", "C", " ", "-", " ", "W", "2">>), W2Labels(employee))>>)),
         <<"w", ".", "j", "s", "o", "n">>)

PaystubLabels(start) ==
    <<Leaf(<<"E", "m", "p", "l", "o", "y", "e", "e", " ", "N", "a", "m", "e">>, Str(<<"A", "l">>)), Leaf(<<"E", "m", "p", "l", "o", "y", "e", "r", " ", "N", "a", "m", "e">>, Str(<<"E", "d">>)),
      Leaf(<<"P", "a", "y", " ", "P", "e", "r", "i", "o", "d", " ", "S", "t", "a", "r", "t", " ", "D", "a", "t", "e">>, Str(start)),
      Leaf(<<"P", "a", "y", " ", "P", "e", "r", "i", "o", "d", " ", "E", "n", "d", " ", "D", "a", "t", "e">>, Str(<<"1", "3", "/", "0", "2", "/", "2", "0", "2", "4">>)),
      Leaf(<<"Y", "e", "a", "r", " ", "t", "o", " ", "D", "a", "t", "e", " ", "E", "a", "r", "n", "i", "n", "g", "s">>, Num(<<"9">>))>>

\* a paystub that only its skill name tells
PaystubFile(start, file_name) ==
    File(Record(Meta(Absent, Str(file_name)), Absent,
                List(<<Skill(Str(<<"o", "t", "h", "e", "r">>), <<>>),
                       Skill(Str(<<"I", "C", " ", "-", " ", "P", "a", "y", "s", "t", "u", "b", "s">>), PaystubLabels(start))>>)),
         <<"p", ".", "j", "s", "o", "n">>)

Form1120Labels ==
    <<Leaf(<<"N", "a", "m", "e">>, Str(<<"C", "o">>)), Leaf(<<"1", "1", "2", "0", " ", "Y", "e", "a", "r">>, Num(<<"2", "0", "2", "3">>)),
      Leaf(<<"B", "e", "g", "i", "n", "n", "i", "n", "g", " ", "D", "a", "t", "e", " ", "O", "f", " ", "T", "a", "x", " ", "Y", "e", "a", "r">>, Str(<<"2", "0", "2", "3", "-", "0", "1", "-", "0", "1">>)),
      Leaf(<<"E", "n", "d", "i", "n", "g", " ", "D", "a", "t", "e", " ", "O", "f", " ", "T", "a", "x", " ", "Y", "e", "a", "r">>, Str(<<"D", "e", "c", "e", "m", "b", "e", "r", " ", "3", "1", ",", " ", "2", "0", "2", "3">>))>>

Form1120File(skill_name) ==
    File(Record(NoMeta, Str(<<"F", "o", "r", "m", " ", "1", "1", "2", "0">>),
                List(<<Skill(Str(skill_name), Form1120Labels)>>)),
         <<"c", ".", "j", "s", "o", "n">>)

PipelineFiles ==
    {W2File(Str(e), f) : e \in {<<"A", "l">>, <<"B", "o">>}, f \in {<<"a">>, <<"b">>}}
    \cup {PaystubFile(s, <<"a">>) : s \in {<<"0", "1", "/", "0", "2", "/", "2", "0", "2", "4">>, <<"1", "-", "2", "-", "2", "0", "2", "4">>, <<"s", "o", "o", "n">>}}
    \cup {PaystubFile(<<"0", "1", "/", "0", "2", "/", "2", "0", "2", "4">>, <<"b">>)}
    \cup {Form1120File(n) : n \in {<<"2", "0", "2", "3", " ", "1", "1", "2", "0", " ", "C", "o", "r", "p", "o", "r", "a", "t", "i", "o", "n", "1">>, <<"I", "C", " ", "-", " ", "1", "1", "2", "0">>}}
    \cup {\* a W-2 without an employee name
          W2File(Str(<<"n", "u", "l", "l">>), <<"a">>),
          \* a W-2 by its metadata that carries only a paystub skill
          File(Record(Meta(Str(<<"I", "n", "c", "o", "m", "e", " ", "W", "-", "2">>), Str(<<"a">>)), Absent,
                      List(<<Skill(Str(<<"I", "C", " ", "-", " ", "P", "a", "y", "s", "t", "u", "b", "s">>), PaystubLabels(<<"1", "-", "2", "-", "2", "0", "2", "4">>))>>)),
               <<"s", ".", "j", "s", "o", "n">>),
          \* a paystub whose Meta.Type is a number
          File(Record(Meta(Num(<<"2">>), Absent), Absent,
                      List(<<Skill(Str(<<"I", "C", " ", "-", " ", "P", "a", "y", "s", "t", "u", "b", "s">>), PaystubLabels(<<"1", "-", "2", "-", "2", "0", "2", "4">>))>>)),
               <<"a", ".", "j", "s", "o", "n">>),
          \* "Meta": null, and no skill
          File(Record(NullMeta, Str(<<"I", "n", "c", "o", "m", "e", " ", "W", "-", "2">>), List(<<>>)), <<"m", ".", "j", "s", "o", "n">>),
          \* a label that is not an object
          File(Record(Meta(Str(<<"I", "n", "c", "o", "m", "e", " ", "W", "-", "2">>), Str(<<"a">>)), Absent,
                      List(<<Skill(Str(<<"I", "C", " ", "-", " ", "W", "2">>), W2Labels(Str(<<"A", "l">>)) \o <<BadLabel>>)>>)),
               <<"l", ".", "j", "s", "o", "n">>),
          Unparsable(<<"u", ".", "j", "s", "o", "n">>)}

\* the date strings of these files that no pattern of parse_date decides
FallbackStrings == {<<"s", "o", "o", "n">>}

Init ==
    /\ pc = "loop"
    /\ files \in SeqsUpTo(PipelineFiles, MaxFiles)
    /\ dateutil \in [FallbackStrings -> DateutilOutcomes]
    /\ results = LoopStart.results
    /\ documents = LoopStart.documents
    /\ processed_files = LoopStart.processed_files
    /\ error_files = LoopStart.error_files
    /\ error_file_list = LoopStart.error_file_list
    /\ final_output = <<>>
    /\ date_str = None
    /\ parsed = None
    /\ json_data = None
    /\ doc_type = None
    /\ labels = None
    /\ base_data = None

\* the loop's state as the variables hold it
LoopState ==
    [documents |-> documents,
     processed_files |-> processed_files,
     error_files |-> error_files,
     error_file_list |-> error_file_list,
     results |-> results]

\* one iteration of the loop over glob's files
FileStep ==
    /\ pc = "loop"
    /\ Len(results) < Len(files)
    /\ \E st \in {LoopBody(LoopState, files[Len(results) + 1], dateutil)} :
           /\ documents' = st.documents
           /\ processed_files' = st.processed_files
           /\ error_files' = st.error_files
           /\ error_file_list' = st.error_file_list
           /\ results' = st.results
    /\ UNCHANGED <<pc, files, final_output, callvars>>

\* the loop over the files ends
LoopEnd ==
    /\ pc = "loop"
    /\ Len(results) = Len(files)
    /\ pc' = "group"
    /\ UNCHANGED <<callvars, batchvars>>

\* one iteration of the loop over documents.items()
GroupStep ==
    /\ pc = "group"
    /\ LET n == Cardinality(DOMAIN final_output)
           t == TypeOrder[n + 1]
       IN  /\ final_output' = final_output @@ (OutputKey(t) :> GroupDocs(documents[t], t))
           /\ pc' = IF n + 1 = Len(TypeOrder) THEN "done" ELSE "group"
    /\ UNCHANGED <<files, results, documents, processed_files, error_files,
                   error_file_list, callvars>>

Next == FileStep \/ LoopEnd \/ GroupStep

Spec == Init /\ [][Next]_vars

(***************************************************************************)
(* Claims about process_documents and extract_document_data                *)
(***************************************************************************)
Done == pc = "done"
CatalogOf(t) == final_output[OutputKey(t)]

\* the identity fields of a document type, which make its grouping key
IdentityFields(t) ==
    IF t = "paystub"
    THEN {"employee_name", "employer_name", "pay_period_start_date",
          "pay_period_end_date", "year_to_date_earnings"}
    ELSE IF t = "w2" THEN {"employee_name", "employer_name", "year"}
    ELSE {"name", "year", "beginning_tax_year", "ending_tax_year"}

\* two records of type t have the same grouping key
SameKey(d1, d2, t) ==
    \A f \in IdentityFields(t) : GetFieldValue(Str(d1[f])) = GetFieldValue(Str(d2[f]))

\* C1: after the grouping pass, among the accepted records of a type that
\* share a grouping key exactly one is "original", all others are "duplicate",
\* and no record of the set has a filename lexicographically smaller than the
\* original's.
C1_OneOriginalPerCluster ==
    Done =>
        \A t \in DocTypes :
            LET docs == CatalogOf(t)
            IN  /\ Len(docs) = Len(documents[t])
                /\ \A k \in 1..Len(docs) :
                    LET cluster == {m \in 1..Len(docs) : SameKey(docs[m], docs[k], t)}
                        originals == {m \in cluster : docs[m]["status"] = "original"}
                    IN  /\ Cardinality(originals) = 1
                        /\ \A m \in cluster \ originals : docs[m]["status"] = "duplicate"
                        /\ \A o \in originals : \A m \in cluster :
                                ~StrLess(docs[m]["filename"], docs[o]["filename"])

\* two records of one cluster were found in the order b, a, and a is the original
C1_Witness ==
    /\ Done
    /\ \E t \in DocTypes :
        /\ Len(documents[t]) = 2
        /\ SameKey(documents[t][1], documents[t][2], t)
        /\ StrLess(documents[t][2]["filename"], documents[t][1]["filename"])
        /\ CatalogOf(t)[1]["filename"] = documents[t][2]["filename"]
        /\ CatalogOf(t)[1]["status"] = "original"
        /\ CatalogOf(t)[2]["status"] = "duplicate"

\* the orderings of a sequence
Orderings(s) ==
    {[k \in 1..Len(s) |-> s[p[k]]] :
        p \in {q \in [1..Len(s) -> 1..Len(s)] : \A i, j \in 1..Len(s) : q[i] = q[j] => i = j}}

\* the collection of the elements of a sequence, each with its number of copies
BagOf(s) == [x \in Range(s) |-> Cardinality({k \in 1..Len(s) : s[k] = x})]

\* C2: for every ordering of the same files, process_documents yields for
\* each document type the same collection of records with their statuses
\* (also when records of one cluster have equal filenames).
C2_OrderIndependent ==
    Done =>
        \A other \in Orderings(files) :
            LET catalog == Catalog(other, dateutil)
            IN  \A t \in DocTypes : BagOf(catalog[OutputKey(t)]) = BagOf(CatalogOf(t))

\* two different files gave two records of one cluster with equal filenames
C2_Witness ==
    /\ Done
    /\ Len(files) = 2
    /\ files[1] # files[2]
    /\ \E t \in DocTypes :
        /\ Len(CatalogOf(t)) = 2
        /\ SameKey(CatalogOf(t)[1], CatalogOf(t)[2], t)
        /\ CatalogOf(t)[1]["filename"] = CatalogOf(t)[2]["filename"]
        /\ CatalogOf(t)[1]["status"] = "original"
        /\ CatalogOf(t)[2]["status"] = "duplicate"

\* the fields declared required for a document type
DeclaredRequired(t) ==
    IF t = "paystub"
    THEN {"employee_name", "employer_name", "pay_period_start_date",
          "pay_period_end_date", "year_to_date_earnings"}
    ELSE IF t = "w2" THEN {"employee_name", "employer_name", "year"}
    ELSE {"name", "year", "beginning_tax_year", "ending_tax_year"}

Blank(value) == value = NA \/ value = <<>>

\* C5: every record that reaches the grouping stage or the catalog has a
\* value other than "N/A" and "" in each field required for its type; and a
\* record with a required field still "N/A" or empty after extraction and date
\* normalization is rejected, with its type and a reason that lists exactly
\* the missing required fields.
C5_RequiredFieldsPresent ==
    /\ \A t \in DocTypes : \A k \in 1..Len(documents[t]) :
            \A f \in DeclaredRequired(t) : ~Blank(documents[t][k][f])
    /\ Done => \A t \in DocTypes : \A k \in 1..Len(CatalogOf(t)) :
            \A f \in DeclaredRequired(t) : ~Blank(CatalogOf(t)[k][f])
    /\ \A k \in 1..Len(results) :
            LET base == ExtractedData(files[k].json, files[k].name,
                                      IdentifyDocumentType(files[k].json), dateutil)
            IN  (files[k].parsable /\ base # Fault /\ base # [skill_found |-> FALSE]) =>
                    LET t == base["document_type"]
                        missing == {f \in DeclaredRequired(t) : Blank(base[f])}
                        reason == results[k].error_message
                    IN  IF missing = {} THEN results[k].data # None
                        ELSE /\ results[k].data = None
                             /\ results[k].doc_type = t
                             /\ reason.kind = "missing fields"
                             /\ Range(reason.fields) = missing
                             /\ Len(reason.fields) = Cardinality(missing)

\* a record was rejected for a missing field while another reached the catalog
C5_Witness ==
    /\ Done
    /\ \E k \in 1..Len(results) :
        /\ results[k].error_message.kind = "missing fields"
        /\ results[k].error_message.fields = <<"employee_name">>
    /\ \E t \in DocTypes : CatalogOf(t) # <<>>

\* the skill expected for a document type
ExpectedSkill(t) ==
    IF t = "paystub" THEN <<"I", "C", " ", "-", " ", "P", "a", "y", "s", "t", "u", "b", "s">>
    ELSE IF t = "w2" THEN <<"I", "C", " ", "-", " ", "W", "2">>
    ELSE <<"2", "0", "2", "3", " ", "1", "1", "2", "0", " ", "C", "o", "r", "p", "o", "r", "a", "t", "i", "o", "n", "1">>

\* Summary has no skill of this exact name
NoSkillNamed(json, name) ==
    \A k \in 1..Len(json.Summary.items) : json.Summary.items[k].SkillName # Str(name)

\* a rejection for the missing skill of the classified type
RejectedForSkill(r, t) ==
    /\ r.data = None
    /\ r.doc_type = t
    /\ r.error_message.kind = "skill not found"
    /\ r.error_message.skill = ExpectedSkill(t)

\* Meta is missing or an object, Summary is missing or a list of objects
WellFormed(json) ==
    /\ json.obj
    /\ json.Meta.k \in {"absent", "obj"}
    /\ json.Summary.k \in {"absent", "list"}
    /\ \A k \in 1..Len(json.Summary.items) : json.Summary.items[k].obj

\* C6 as stated: every raw record whose Summary has no skill named as its
\* classified type expects is rejected with that type and a reason naming the
\* missing skill.
C6_EveryRecordWithoutSkillRejectedForSkill ==
    \A k \in 1..Len(results) :
        LET json == files[k].json
            t == IdentifyDocumentType(json)
        IN  (files[k].parsable /\ json.obj /\ NoSkillNamed(json, ExpectedSkill(t)))
                => RejectedForSkill(results[k], t)

\* C6 as amended: every raw record whose Meta is missing or an object and
\* whose Summary is missing or a list of objects, and whose Summary has no
\* skill named exactly as its classified type expects, is rejected without
\* data, with the classified type and a reason naming the missing skill (a
\* record with Meta.Type "Income W-2" and no skill "IC - W2": type w2, reason
\* citing "IC - W2"); a record whose Meta is present and not an object
\* raises, and is rejected with no type and the reason "Error extracting
\* data".
C6_WellFormedRecordWithoutSkillRejectedForSkill ==
    \A k \in 1..Len(results) :
        LET json == files[k].json
            t == IdentifyDocumentType(json)
        IN  files[k].parsable =>
                /\ (WellFormed(json) /\ NoSkillNamed(json, ExpectedSkill(t)))
                        => RejectedForSkill(results[k], t)
                /\ (/\ WellFormed(json)
                    /\ json.Meta.Type = Str(<<"I", "n", "c", "o", "m", "e", " ", "W", "-", "2">>)
                    /\ NoSkillNamed(json, <<"I", "C", " ", "-", " ", "W", "2">>))
                        => /\ results[k].doc_type = "w2"
                           /\ results[k].error_message.skill = <<"I", "C", " ", "-", " ", "W", "2">>
                /\ (json.obj /\ json.Meta.k \notin {"absent", "obj"})
                        => results[k] = ErrorExtracting

\* a record with Meta.Type "Income W-2" and other skills only was rejected
\* for the skill "IC - W2"
C6_Witness ==
    \E k \in 1..Len(results) :
        /\ files[k].parsable
        /\ files[k].json.Meta.Type = Str(<<"I", "n", "c", "o", "m", "e", " ", "W", "-", "2">>)
        /\ files[k].json.Summary.items # <<>>
        /\ NoSkillNamed(files[k].json, <<"I", "C", " ", "-", " ", "W", "2">>)
        /\ RejectedForSkill(results[k], "w2")

\* extract_document_data accepts the file
IsAccepted(file) ==
    file.parsable /\ ExtractDocumentData(file.json, file.name, dateutil).data # None

RECURSIVE Sum(_)
Sum(s) == IF s = <<>> THEN 0 ELSE Head(s) + Sum(Tail(s))

\* C10: the batch loop handles every file, counts each exactly once as
\* processed or as an error, the catalog has as many entries as files were
\* processed, and the files that fail change nothing in what is produced for
\* the others: the catalog is the one of the same run without them.
C10_FaultsContained ==
    /\ processed_files + error_files = Len(results)
    /\ Len(error_file_list) = error_files
    /\ Len(results) <= Len(files)
    /\ Sum([k \in 1..3 |-> Len(documents[TypeOrder[k]])]) = processed_files
    /\ Done =>
        /\ Len(results) = Len(files)
        /\ processed_files = Len(SelectSeq(files, IsAccepted))
        /\ error_files = Len(SelectSeq(files, LAMBDA file : ~IsAccepted(file)))
        /\ Sum([k \in 1..3 |-> Len(CatalogOf(TypeOrder[k]))]) = processed_files
        /\ final_output = Catalog(SelectSeq(files, IsAccepted), dateutil)

\* a file that raised was met after an accepted one, and the run ended with
\* one processed and one error
C10_Witness ==
    /\ Done
    /\ Len(files) = 2
    /\ results[1].data # None
    /\ results[2] = ErrorExtracting
    /\ processed_files = 1
    /\ error_files = 1
    /\ \E t \in DocTypes : Len(CatalogOf(t)) = 1

====
